---- MODULE Spec2Model ----
(***************************************************************************)
(* WhoseOnFirst: rotation and dispatch engine.                             *)
(*                                                                         *)
(* Time is the local (America/Chicago) wall clock in whole hours since a   *)
(* Monday 00:00; the database stores naive local datetimes                 *)
(* (schedule_repository.py strips tzinfo before every comparison).         *)
(* The storage model is the default deployment, SQLite without             *)
(* PRAGMA foreign_keys: INTEGER PRIMARY KEY ids are max(id)+1 and a bulk   *)
(* query.delete() does not cascade to child tables.                        *)
(***************************************************************************)
EXTENDS Integers, Sequences, FiniteSets, TLC

VARIABLES members, shifts, schedule, overrides, logs, now, last,
          manager, settings, requests, runs, paged

vars == <<members, shifts, schedule, overrides, logs, now, last, manager, settings,
          requests, runs, paged>>

----------------------------------------------------------------------------
(* Bounds of the model                                                     *)

NMembers == 2
MaxWeeks == 2
MaxStartWeek == 0
MaxRows == 3
NCallers == 2
MaxOverrides == 2
MaxLogs == 3
MaxNow == 2
MaxTeam == 3

(* Program constants                                                       *)

HoursPerDay == 24
DaysPerWeek == 7
ShiftStartHour == 8
DefaultStartTime == 8
max_retries == 3
base_delay == 60

HoursPerWeek == HoursPerDay * DaysPerWeek

NoOrder == 0 - 1

MemberIds == 1..NMembers

----------------------------------------------------------------------------
(* Helpers                                                                 *)

MaxOf(S) == CHOOSE x \in S : \A y \in S : y <= x

RECURSIVE SortedSeq(_)
SortedSeq(S) ==
  IF S = {} THEN <<>>
  ELSE LET m == CHOOSE x \in S : \A y \in S : x <= y
       IN  <<m>> \o SortedSeq(S \ {m})

----------------------------------------------------------------------------
(* Shift definitions: day_of_week is kept as the DAY_OFFSET_MAP offset of   *)
(* the first day name; sequences are in shift_number order.                *)

(* A shift with start_time given as the hour of "HH:MM".                   *)
ShiftStartingAt(id, day, dur, start_time) ==
  [id |-> id, day |-> day, duration_hours |-> dur, start_time |-> start_time]

(* A shift with the column default start_time = "08:00".                   *)
Shift(id, day, dur) == ShiftStartingAt(id, day, dur, DefaultStartTime)

ShiftConfigs ==
  { <<>>,
    <<Shift(1, 0, 24)>>,
    <<ShiftStartingAt(1, 0, 24, 9)>>,
    <<Shift(1, 0, 24), Shift(2, 1, 48)>> }

(* TeamMemberRepository.get_active, then sorted by id.                     *)
ActiveIds(ms) == {m \in DOMAIN ms : ms[m].is_active}

GetTeamMembers(ms) == SortedSeq(ActiveIds(ms))

(* RotationAlgorithmService._get_week_start                                *)
GetWeekStart(date) ==
  LET days_since_monday == (date \div HoursPerDay) % DaysPerWeek
      monday == date - days_since_monday * HoursPerDay
  IN  monday - (monday % HoursPerDay)

(* RotationAlgorithmService._calculate_shift_start                         *)
CalculateShiftStart(base_monday, week, shift) ==
  LET shift_start == base_monday + (week * DaysPerWeek + shift.day) * HoursPerDay
  IN  shift_start - (shift_start % HoursPerDay) + ShiftStartHour

(* isocalendar()[1] of a start, for an epoch that is the Monday of ISO     *)
(* week 1 and a horizon inside one ISO year.                               *)
IsoWeek(t) == (t \div HoursPerWeek) + 1

(* An end that comes one day after the start whatever the duration.       *)
ShiftEndNextDay(shift_start, shift) == shift_start + HoursPerDay

(* shift_start_datetime + timedelta(hours=shift.duration_hours)            *)
ShiftEnd(shift_start, shift) == shift_start + shift.duration_hours

(* The entry with the offset subtracted: the member on a shift moves to    *)
(* the next shift each week.                                               *)
RotationEntryBackward(mseq, sh, monday, week, shift_index) ==
  LET week_offset == week % Len(mseq)
      member_index == (shift_index + Len(mseq) - week_offset) % Len(mseq)
      shift == sh[shift_index + 1]
      shift_start == CalculateShiftStart(monday, week, shift)
  IN  [ team_member_id |-> mseq[member_index + 1],
        shift_id |-> shift.id,
        week_number |-> IsoWeek(shift_start),
        start_datetime |-> shift_start,
        end_datetime |-> ShiftEnd(shift_start, shift),
        notified |-> FALSE ]

(* The entry generate_rotation builds for (week, shift_index); shift_index *)
(* is 0-based as in enumerate(shifts).                                     *)
RotationEntry(mseq, sh, monday, week, shift_index) ==
  LET week_offset == week % Len(mseq)
      member_index == (shift_index + week_offset) % Len(mseq)
      shift == sh[shift_index + 1]
      shift_start == CalculateShiftStart(monday, week, shift)
  IN  [ team_member_id |-> mseq[member_index + 1],
        shift_id |-> shift.id,
        week_number |-> IsoWeek(shift_start),
        start_datetime |-> shift_start,
        end_datetime |-> ShiftEnd(shift_start, shift),
        notified |-> FALSE ]

(* A rotation that repeats week 0's assignment every week.                 *)
GenerateRotationNoOffset(mseq, sh, start_date, weeks) ==
  LET monday == GetWeekStart(start_date)
      n == Len(sh)
  IN  [ k \in 1..(weeks * n) |->
          [ RotationEntry(mseq, sh, monday, (k - 1) \div n, (k - 1) % n)
              EXCEPT !.team_member_id = mseq[(((k - 1) % n) % Len(mseq)) + 1] ] ]

(* RotationAlgorithmService.generate_rotation after validation: the list   *)
(* of entries in the order the loops append them.                          *)
GenerateRotation(mseq, sh, start_date, weeks) ==
  LET monday == GetWeekStart(start_date)
      n == Len(sh)
  IN  [ k \in 1..(weeks * n) |->
          RotationEntry(mseq, sh, monday, (k - 1) \div n, (k - 1) % n) ]

(* The exception generate_rotation raises, or "ok".                        *)
RotationError(ms, sh, aware, weeks) ==
  IF ~aware THEN "ValueError"
  ELSE IF weeks < 1 THEN "InvalidWeekCountError"
  ELSE IF GetTeamMembers(ms) = <<>> THEN "InsufficientMembersError"
  ELSE IF sh = <<>> THEN "NoShiftsConfiguredError"
  ELSE "ok"

----------------------------------------------------------------------------
(* ScheduleRepository                                                      *)

GetByDateRange(rows, start_date, end_date) ==
  {r \in rows : r.start_datetime >= start_date /\ r.start_datetime <= end_date}

(* A delete that cuts at the Monday of from_date's week instead of at      *)
(* from_date itself.                                                       *)
DeleteFutureSchedulesFromWeekStart(rows, from_date) ==
  {r \in rows : ~(r.start_datetime >= GetWeekStart(from_date))}

DeleteFutureSchedules(rows, from_date) ==
  {r \in rows : ~(r.start_datetime >= from_date)}

NextId(rows) == IF rows = {} THEN 1 ELSE MaxOf({r.id : r \in rows}) + 1

BulkCreate(rows, entries) ==
  rows \cup { [ id |-> NextId(rows) + k - 1,
                team_member_id |-> entries[k].team_member_id,
                shift_id |-> entries[k].shift_id,
                week_number |-> entries[k].week_number,
                start_datetime |-> entries[k].start_datetime,
                end_datetime |-> entries[k].end_datetime,
                notified |-> entries[k].notified ] : k \in DOMAIN entries }

----------------------------------------------------------------------------
(* ScheduleService.generate_schedule as a function of the stored rows:     *)
(* the exception raised (or "ok"), the rows left behind, and those of the  *)
(* stored rows that the call did not delete.                               *)

GenerateScheduleResult(rows, ms, sh, start_date, aware, weeks, force) ==
  IF ~aware THEN [status |-> "ValueError", rows |-> rows, kept |-> rows]
  ELSE
    LET end_date == start_date + weeks * HoursPerWeek
        existing == GetByDateRange(rows, start_date, end_date)
    IN  IF existing # {} /\ ~force
          THEN [status |-> "ScheduleAlreadyExistsError", rows |-> rows, kept |-> rows]
          ELSE
            LET kept == IF existing # {} /\ force
                          THEN DeleteFutureSchedules(rows, start_date)
                          ELSE rows
                err == RotationError(ms, sh, aware, weeks)
            IN  IF err # "ok"
                  THEN [status |-> err, rows |-> kept, kept |-> kept]
                  ELSE [status |-> "ok", kept |-> kept,
                        rows |-> BulkCreate(kept,
                                   GenerateRotation(GetTeamMembers(ms), sh,
                                                    start_date, weeks))]

(* ScheduleService.regenerate_from_date                                    *)
RegenerateFromDateResult(rows, ms, sh, from_date, aware, weeks) ==
  IF ~aware THEN [status |-> "ValueError", rows |-> rows, kept |-> rows]
  ELSE GenerateScheduleResult(DeleteFutureSchedules(rows, from_date),
                              ms, sh, from_date, aware, weeks, TRUE)

----------------------------------------------------------------------------
(* TeamMemberRepository / TeamMemberService                                *)

(* order_by(rotation_order.nullslast(), id)                                *)
RotationKey(ms, m) ==
  (IF ms[m].rotation_order = NoOrder THEN Len(ms) + 2 ELSE ms[m].rotation_order)
    * (Len(ms) + 1) + m

RECURSIVE SortByKey(_, _)
SortByKey(ms, S) ==
  IF S = {} THEN <<>>
  ELSE LET m == CHOOSE x \in S : \A y \in S : RotationKey(ms, x) <= RotationKey(ms, y)
       IN  <<m>> \o SortByKey(ms, S \ {m})

GetOrderedForRotation(ms) == SortByKey(ms, ActiveIds(ms))

GetMaxRotationOrder(ms) ==
  LET set == {ms[m].rotation_order : m \in {x \in DOMAIN ms : ms[x].rotation_order # NoOrder}}
  IN  IF set = {} THEN 0 ELSE MaxOf(set)

DeactivateResult(ms, member_id) ==
  IF ~ms[member_id].is_active THEN ms
  ELSE
    LET off == [ms EXCEPT ![member_id].is_active = FALSE,
                          ![member_id].rotation_order = NoOrder]
        ordered == GetOrderedForRotation(off)
    IN  [m \in DOMAIN ms |->
          IF off[m].is_active
            THEN [off[m] EXCEPT !.rotation_order =
                    (CHOOSE i \in DOMAIN ordered : ordered[i] = m) - 1]
            ELSE off[m]]

ActivateResult(ms, member_id) ==
  IF ms[member_id].is_active THEN ms
  ELSE
    LET on == [ms EXCEPT ![member_id].is_active = TRUE]
    IN  [on EXCEPT ![member_id].rotation_order = GetMaxRotationOrder(on) + 1]

----------------------------------------------------------------------------
(* The record of the most recent call: its inputs and its result.          *)
(* deleted counts the schedule rows the call removed; first_new_id is the  *)
(* id of the first row it inserted (0 when it inserted none).              *)

NoCall ==
  [ op |-> "none", status |-> "none",
    start |-> 0, aware |-> TRUE, weeks |-> 0, force |-> FALSE,
    deleted |-> 0, first_new_id |-> 0,
    schedule_id |-> 0, member_id |-> 0, override_id |-> 0, count |-> 0,
    was_notified |-> FALSE, retry_count |-> 0, active_override |-> 0,
    recipient |-> 0, primary |-> <<>>, secondary |-> <<>>,
    batch |-> <<>>, results |-> <<>>,
    successful |-> 0, failed |-> 0, skipped |-> 0,
    digest |-> <<>> ]

NoTime == 0 - 1

(* The generate_schedule calls in progress, one slot per request thread:   *)
(* pc is "idle" before the call and after it returned or raised, "checked" *)
(* between the existence check and bulk_create. start and weeks are those  *)
(* of the slot's latest call, inserted the rows that call has added.       *)
Callers == 1..NCallers

Idle == [ pc |-> "idle", start |-> 0, weeks |-> 0, inserted |-> 0 ]

NoRequests == [ c \in Callers |-> Idle ]

(* The runs of the daily notification function in progress: the scheduled  *)
(* job and a manual trigger. batch is the list the run's query returned,   *)
(* item the position the loop of send_batch_notifications has reached; pc  *)
(* is "idle", "loop" (before an item's notified check) or "sending"        *)
(* (past the check, before the item's records and flag are committed).     *)
Runners == { "job", "manual" }

IdleRun == [ pc |-> "idle", batch |-> <<>>, item |-> 0 ]

NoRuns == [ r \in Runners |-> IdleRun ]

(* History: one entry per send_notification call with force=False that     *)
(* returned status 'sent', naming the Assignment and its shift slot.       *)
Page(row) ==
  [ schedule_id |-> row.id, shift_id |-> row.shift_id,
    start_datetime |-> row.start_datetime ]

Called(op, status) == [ NoCall EXCEPT !.op = op, !.status = status ]

GenerationCall(op, r, start_date, aware, weeks, force) ==
  [ Called(op, r.status) EXCEPT
      !.start = start_date, !.aware = aware, !.weeks = weeks, !.force = force,
      !.deleted = Cardinality(schedule \ r.kept),
      !.first_new_id = IF r.rows = r.kept THEN 0 ELSE NextId(r.kept) ]

----------------------------------------------------------------------------
(* ScheduleManager as constructed (not running, no job added) and the      *)
(* auto-renewal settings SettingsService returns when none is stored.      *)

NoManager == [ is_running |-> FALSE, jobs |-> {} ]

DefaultSettings ==
  [ auto_renew_enabled |-> TRUE,
    auto_renew_threshold_weeks |-> 4,
    auto_renew_weeks |-> 52 ]

----------------------------------------------------------------------------
(* Initial state: a roster as TeamMemberService.create leaves it           *)
(* (rotation_order = max + 1), possibly followed by deactivations, one of  *)
(* the shift configurations, and empty schedule, override and              *)
(* notification tables.                                                    *)

Team(n) ==
  [ m \in 1..n |->
      [ is_active |-> TRUE, rotation_order |-> m, secondary_phone |-> (m % 2 = 1) ] ]

InitMembers == Team(NMembers)

RECURSIVE DeactivateAll(_, _)
DeactivateAll(ms, S) ==
  IF S = {} THEN ms
  ELSE LET m == CHOOSE x \in S : \A y \in S : x <= y
       IN  DeactivateAll(DeactivateResult(ms, m), S \ {m})

Rosters == { DeactivateAll(InitMembers, S) : S \in {{}, {1}, MemberIds} }

Init ==
  /\ requests = NoRequests
  /\ runs = NoRuns
  /\ paged = <<>>
  /\ members \in Rosters
  /\ shifts \in ShiftConfigs
  /\ schedule = {}
  /\ overrides = {}
  /\ logs = <<>>
  /\ now = 0
  /\ manager = NoManager
  /\ settings = DefaultSettings
  /\ last = NoCall

StartDates ==
  { w * HoursPerWeek + d * HoursPerDay : w \in 0..MaxStartWeek, d \in {0, 2} }

WeekCounts == 0..MaxWeeks

(* ScheduleService.generate_schedule                                       *)
GenerateScheduleCall(start_date, aware, weeks, force) ==
  LET r == GenerateScheduleResult(schedule, members, shifts,
                                  start_date, aware, weeks, force)
  IN  /\ schedule' = r.rows
      /\ last' = GenerationCall("generate", r, start_date, aware, weeks, force)
      /\ UNCHANGED <<manager, settings, members, shifts, overrides, logs, now, requests, runs, paged>>

(* generate_schedule while the table stays within MaxRows rows.            *)
GenerateSchedule(start_date, aware, weeks, force) ==
  /\ Cardinality(GenerateScheduleResult(schedule, members, shifts,
                                        start_date, aware, weeks, force).rows) <= MaxRows
  /\ GenerateScheduleCall(start_date, aware, weeks, force)

(* ScheduleService.regenerate_from_date                                    *)
RegenerateFromDate(from_date, aware, weeks) ==
  LET r == RegenerateFromDateResult(schedule, members, shifts,
                                    from_date, aware, weeks)
  IN  /\ Cardinality(r.rows) <= MaxRows
      /\ schedule' = r.rows
      /\ last' = GenerationCall("regenerate", r, from_date, aware, weeks, TRUE)
      /\ UNCHANGED <<manager, settings, members, shifts, overrides, logs, now, requests, runs, paged>>

Next ==
  \/ \E d \in StartDates, a \in BOOLEAN, w \in WeekCounts, f \in BOOLEAN :
       GenerateSchedule(d, a, w, f)
  \/ \E d \in StartDates, a \in BOOLEAN, w \in WeekCounts :
       RegenerateFromDate(d, a, w)

Spec == Init /\ [][Next]_vars

----------------------------------------------------------------------------
(* Rotation over teams of up to MaxTeam members and as many shifts: the    *)
(* roster is one TeamMemberService leaves behind after creating n members  *)
(* and, possibly, deactivating one and activating it again; the shifts are *)
(* one 24-hour shift per weekday from Monday on.                           *)

TeamRosters ==
  UNION { {Team(n)}
          \cup { DeactivateResult(Team(n), m) : m \in 1..n }
          \cup { ActivateResult(DeactivateResult(Team(n), m), m) : m \in 1..n }
          : n \in 1..MaxTeam }

WeekdayShifts(k) == [ i \in 1..k |-> Shift(i, i - 1, 24) ]

RotationStartDates == { 0, HoursPerWeek }

InitRotation ==
  /\ requests = NoRequests
  /\ runs = NoRuns
  /\ paged = <<>>
  /\ members \in TeamRosters
  /\ shifts \in { WeekdayShifts(k) : k \in 1..MaxTeam }
  /\ schedule = {}
  /\ overrides = {}
  /\ logs = <<>>
  /\ now = 0
  /\ manager = NoManager
  /\ settings = DefaultSettings
  /\ last = NoCall

NextRotation ==
  \E d \in RotationStartDates, w \in 0..MaxTeam, f \in BOOLEAN :
    /\ Cardinality(schedule) <= MaxTeam * MaxTeam
    /\ GenerateScheduleCall(d, TRUE, w, f)

SpecRotation == InitRotation /\ [][NextRotation]_vars

----------------------------------------------------------------------------
(* ScheduleOverrideRepository / ScheduleOverrideService                    *)

(* BaseRepository.get_by_id: the set holding the row, or the empty set.    *)
GetById(rows, id) == {r \in rows : r.id = id}

(* ScheduleOverrideRepository.get_override_for_schedule: the active        *)
(* overrides of the schedule (the query returns the first of them).        *)
GetOverrideForSchedule(ovs, schedule_id) ==
  {o \in ovs : o.schedule_id = schedule_id /\ o.status = "active"}

IsOriginalMemberNever(rows, schedule_id, override_member_id) == FALSE

(* Validation 4 of create_override: the covering member is the member the  *)
(* schedule row names.                                                     *)
IsOriginalMember(rows, schedule_id, override_member_id) ==
  \E r \in GetById(rows, schedule_id) : r.team_member_id = override_member_id

(* The validation of create_override with the duplicate check left out.    *)
CreateOverrideStatusNoDuplicateCheck(rows, ovs, schedule_id, override_member_id) ==
  IF GetById(rows, schedule_id) = {} THEN "ScheduleNotFound"
  ELSE IF override_member_id \notin MemberIds THEN "MemberNotFound"
  ELSE IF IsOriginalMember(rows, schedule_id, override_member_id) THEN "SameMember"
  ELSE "ok"

(* ScheduleOverrideService.create_override: the validation, in order; every *)
(* failure is a ValueError, told apart here by its message.                *)
CreateOverrideStatus(rows, ovs, schedule_id, override_member_id) ==
  IF GetById(rows, schedule_id) = {} THEN "ScheduleNotFound"
  ELSE IF override_member_id \notin MemberIds THEN "MemberNotFound"
  ELSE IF GetOverrideForSchedule(ovs, schedule_id) # {} THEN "DuplicateActive"
  ELSE IF IsOriginalMember(rows, schedule_id, override_member_id) THEN "SameMember"
  ELSE "ok"

(* The row create_override persists; member names are the member ids.      *)
NewOverride(rows, ovs, schedule_id, override_member_id) ==
  [ id |-> NextId(ovs),
    schedule_id |-> schedule_id,
    override_member_id |-> override_member_id,
    original_member_name |->
      (CHOOSE r \in GetById(rows, schedule_id) : TRUE).team_member_id,
    override_member_name |-> override_member_id,
    status |-> "active",
    cancelled_at |-> NoTime ]

CancelOverrideHardDelete(ovs, override_id, t) ==
  { o \in ovs : o.id # override_id }

(* ScheduleOverrideRepository.cancel_override                              *)
CancelOverrideResult(ovs, override_id, t) ==
  { IF o.id = override_id
      THEN [o EXCEPT !.status = "cancelled", !.cancelled_at = t]
      ELSE o : o \in ovs }

(* ScheduleOverrideRepository.complete_past_overrides: the rows selected   *)
(* by the join, and the table after the update.                            *)
PastOverrides(rows, ovs, t) ==
  { o \in ovs : /\ o.status = "active"
                /\ \E r \in rows : r.id = o.schedule_id /\ r.end_datetime < t }

CompletePastOverridesAnyStatus(rows, ovs, t) ==
  { IF \E r \in rows : r.id = o.schedule_id /\ r.end_datetime < t
      THEN [o EXCEPT !.status = "completed"]
      ELSE o : o \in ovs }

CompletePastOverridesResult(rows, ovs, t) ==
  { IF o \in PastOverrides(rows, ovs, t)
      THEN [o EXCEPT !.status = "completed"]
      ELSE o : o \in ovs }

(* ScheduleOverrideService.create_override                                 *)
CreateOverride(schedule_id, override_member_id) ==
  LET status == CreateOverrideStatus(schedule, overrides, schedule_id, override_member_id)
  IN  /\ status = "ok" => Cardinality(overrides) < MaxOverrides
      /\ overrides' =
           IF status = "ok"
             THEN overrides \cup {NewOverride(schedule, overrides,
                                              schedule_id, override_member_id)}
             ELSE overrides
      /\ last' = [ Called("create_override", status) EXCEPT
                     !.schedule_id = schedule_id,
                     !.member_id = override_member_id,
                     !.override_id = IF status = "ok" THEN NextId(overrides) ELSE 0 ]
      /\ UNCHANGED <<manager, settings, members, shifts, schedule, logs, now, requests, runs, paged>>

(* ScheduleOverrideService.cancel_override                                 *)
CancelOverride(override_id) ==
  /\ overrides' = CancelOverrideResult(overrides, override_id, now)
  /\ last' = [ Called("cancel_override",
                      IF GetById(overrides, override_id) = {} THEN "None" ELSE "ok")
                 EXCEPT !.override_id = override_id ]
  /\ UNCHANGED <<manager, settings, members, shifts, schedule, logs, now, requests, runs, paged>>

(* ScheduleOverrideRepository.complete_past_overrides (the daily sweep)    *)
CompletePastOverrides ==
  /\ overrides' = CompletePastOverridesResult(schedule, overrides, now)
  /\ last' = [ Called("complete_past", "ok") EXCEPT
                 !.count = Cardinality(PastOverrides(schedule, overrides, now)) ]
  /\ UNCHANGED <<manager, settings, members, shifts, schedule, logs, now, requests, runs, paged>>

(* The wall clock moves on by a day.                                       *)
Tick ==
  /\ now < MaxNow * HoursPerDay
  /\ now' = now + HoursPerDay
  /\ UNCHANGED <<manager, settings, members, shifts, schedule, overrides, logs, last, requests, runs, paged>>

(* The override layer on top of one generated week: the full roster, the   *)
(* two-shift configuration, generate_schedule(Monday 00:00, weeks=1).      *)
TwoShifts == <<Shift(1, 0, 24), Shift(2, 1, 48)>>

GeneratedWeek(ms, sh) == GenerateScheduleResult({}, ms, sh, 0, TRUE, 1, FALSE)

InitOverride ==
  /\ requests = NoRequests
  /\ runs = NoRuns
  /\ paged = <<>>
  /\ members = InitMembers
  /\ shifts = TwoShifts
  /\ schedule = GeneratedWeek(InitMembers, TwoShifts).rows
  /\ overrides = {}
  /\ logs = <<>>
  /\ now = 0
  /\ manager = NoManager
  /\ settings = DefaultSettings
  /\ last = [ Called("generate", "ok") EXCEPT !.weeks = 1, !.first_new_id = 1 ]

NextOverride ==
  \/ \E sid \in {r.id : r \in schedule} \cup {0}, m \in MemberIds \cup {0} :
       CreateOverride(sid, m)
  \/ \E oid \in {o.id : o \in overrides} \cup {0} : CancelOverride(oid)
  \/ CompletePastOverrides
  \/ Tick

SpecOverride == InitOverride /\ [][NextOverride]_vars

----------------------------------------------------------------------------
(* SMSService                                                              *)

(* What one call of _send_sms does: the provider accepts the message, or   *)
(* raises a TwilioRestException with a status and a code, or something     *)
(* else is raised.                                                         *)
Sent == [kind |-> "sent", status |-> 0, code |-> 0]
Unexpected == [kind |-> "exception", status |-> 0, code |-> 0]
ServerError == [kind |-> "twilio", status |-> 500, code |-> 20003]
InvalidNumber == [kind |-> "twilio", status |-> 400, code |-> 21211]

Outcomes == {Sent, Unexpected, ServerError, InvalidNumber}

(* The provider's answers to the successive calls on one channel.  Nothing *)
(* is asked of the provider after it accepted a message or rejected the    *)
(* number, so the answers past that point are fixed.                       *)
ProviderScripts ==
  { sc \in [1..max_retries -> Outcomes] :
      \A i, j \in 1..max_retries :
        (i < j /\ sc[i] \in {Sent, InvalidNumber}) => sc[j] = Sent }

(* A classification that retries every Twilio error.                       *)
IsRetryableErrorAlways(error) == TRUE

(* SMSService._is_retryable_error                                          *)
IsRetryableError(error) ==
  IF error.status \in {429, 500, 502, 503} THEN TRUE
  ELSE IF error.code \in {21211, 21408, 21614, 21217, 21601} THEN FALSE
  ELSE IF error.code \in {20003, 21610, 30001, 30002, 30003, 30004, 30005, 30006} THEN TRUE
  ELSE FALSE

(* What a channel's loop does, in order: sleep(delay), _send_sms with its  *)
(* outcome, log_notification_attempt with the status logged.               *)
SleepEvent(delay) == [e |-> "sleep", delay |-> delay, outcome |-> Sent, status |-> ""]
SendEvent(outcome) == [e |-> "send", delay |-> 0, outcome |-> outcome, status |-> ""]
LogEvent(status) == [e |-> "log", delay |-> 0, outcome |-> Sent, status |-> status]

BackoffDelayConstant(attempt) == base_delay

(* The wait before the loop's attempt with 0-based index attempt > 0.      *)
BackoffDelay(attempt) == base_delay * 2 ^ (attempt - 1)

(* The loop with the return after a successful send left out.              *)
RECURSIVE SendLoopNoReturn(_, _, _)
SendLoopNoReturn(script, attempt, events) ==
  IF attempt >= max_retries
    THEN [ success |-> \E i \in 1..Len(events) : events[i] = LogEvent("sent"),
           attempts |-> max_retries, events |-> events ]
    ELSE
      LET slept == IF attempt > 0
                     THEN Append(events, SleepEvent(BackoffDelay(attempt)))
                     ELSE events
          outcome == script[attempt + 1]
          sent == Append(slept, SendEvent(outcome))
      IN  IF outcome.kind = "sent"
            THEN SendLoopNoReturn(script, attempt + 1, Append(sent, LogEvent("sent")))
          ELSE IF outcome.kind = "twilio" /\ ~IsRetryableError(outcome)
            THEN [ success |-> FALSE, attempts |-> max_retries,
                   events |-> Append(sent, LogEvent("failed")) ]
          ELSE SendLoopNoReturn(script, attempt + 1, Append(sent, LogEvent("failed")))

(* SMSService._send_to_single_phone from loop index attempt on; events is  *)
(* what the loop has done so far.                                          *)
RECURSIVE SendLoop(_, _, _)
SendLoop(script, attempt, events) ==
  IF attempt >= max_retries
    THEN [ success |-> FALSE, attempts |-> max_retries, events |-> events ]
    ELSE
      LET slept == IF attempt > 0
                     THEN Append(events, SleepEvent(BackoffDelay(attempt)))
                     ELSE events
          outcome == script[attempt + 1]
          sent == Append(slept, SendEvent(outcome))
      IN  IF outcome.kind = "sent"
            THEN [ success |-> TRUE, attempts |-> attempt + 1,
                   events |-> Append(sent, LogEvent("sent")) ]
          ELSE IF outcome.kind = "twilio" /\ ~IsRetryableError(outcome)
            THEN [ success |-> FALSE, attempts |-> max_retries,
                   events |-> Append(sent, LogEvent("failed")) ]
          ELSE SendLoop(script, attempt + 1, Append(sent, LogEvent("failed")))

SendToSinglePhone(script) == SendLoop(script, 0, <<>>)

(* A member's phone numbers.                                               *)
Phone(member_id, phone_type) == [member |-> member_id, type |-> phone_type]

(* NotificationLogRepository.log_notification_attempt: the row written.    *)
LogRow(schedule_id, status, recipient_name, recipient_phone) ==
  [ schedule_id |-> schedule_id, status |-> status,
    recipient_name |-> recipient_name, recipient_phone |-> recipient_phone ]

(* The rows a channel's loop writes, in order.                             *)
ChannelLogs(result, schedule_id, recipient_name, phone) ==
  LET written == SelectSeq(result.events, LAMBDA ev : ev.e = "log")
  IN  [ i \in 1..Len(written) |->
          LogRow(schedule_id, written[i].status, recipient_name, phone) ]

(* NotificationLogRepository.get_retry_count_for_schedule                  *)
GetRetryCountForSchedule(lg, schedule_id) ==
  Len(SelectSeq(lg, LAMBDA row : row.schedule_id = schedule_id))

(* A send that is never skipped.                                           *)
SkipsNever(row, force) == FALSE

(* send_notification: "if schedule.notified and not force"                 *)
Skips(row, force) == row.notified /\ ~force

(* A budget check that never refuses.                                      *)
BudgetNeverExceeded(retry_count) == FALSE

(* send_notification: "if retry_count >= self.max_retries"                 *)
BudgetExceeded(retry_count) == retry_count >= max_retries

(* A notified mark that needs both channels.                               *)
MarksNotifiedBoth(primary, has_secondary, secondary) ==
  primary.success /\ (has_secondary /\ secondary.success)

(* send_notification: "if primary_result['success'] or (secondary_result   *)
(* and secondary_result['success'])"                                       *)
MarksNotified(primary, has_secondary, secondary) ==
  primary.success \/ (has_secondary /\ secondary.success)

NoResult == [ success |-> FALSE, attempts |-> 0, events |-> <<>> ]

(* SMSService.send_notification for a stored row whose team member and     *)
(* shift exist: the status returned, the notified flag afterwards, the     *)
(* notification rows written, and the member whose phone numbers were      *)
(* handed to _send_to_single_phone (0 when none was).                      *)
SendNotificationResult(row, force, ms, lg, p_script, s_script) ==
  LET member == row.team_member_id
      retry_count == GetRetryCountForSchedule(lg, row.id)
      has_secondary == ms[member].secondary_phone
      primary == SendToSinglePhone(p_script)
      secondary == IF has_secondary THEN SendToSinglePhone(s_script) ELSE NoResult
  IN  IF Skips(row, force)
        THEN [ status |-> "skipped", success |-> TRUE, notified |-> row.notified,
               written |-> <<>>, retry_count |-> 0, to |-> 0,
               primary |-> NoResult, secondary |-> NoResult ]
      ELSE IF BudgetExceeded(retry_count)
        THEN [ status |-> "failed", success |-> FALSE, notified |-> row.notified,
               written |-> << LogRow(row.id, "failed", member, Phone(member, "primary")) >>,
               retry_count |-> retry_count, to |-> 0,
               primary |-> NoResult, secondary |-> NoResult ]
      ELSE [ status |-> IF MarksNotified(primary, has_secondary, secondary)
                          THEN "sent" ELSE "failed",
             success |-> MarksNotified(primary, has_secondary, secondary),
             notified |-> IF MarksNotified(primary, has_secondary, secondary)
                            THEN TRUE ELSE row.notified,
             written |-> ChannelLogs(primary, row.id, member, Phone(member, "primary"))
                         \o ChannelLogs(secondary, row.id, member, Phone(member, "secondary")),
             retry_count |-> retry_count, to |-> member,
             primary |-> primary, secondary |-> secondary ]

(* The member an active override of the row names, 0 when there is none.   *)
ActiveOverrideMember(ovs, schedule_id) ==
  IF GetOverrideForSchedule(ovs, schedule_id) = {} THEN 0
  ELSE (CHOOSE o \in GetOverrideForSchedule(ovs, schedule_id) : TRUE).override_member_id

(* SMSService.send_notification                                            *)
SendNotification(row, force, p_script, s_script) ==
  LET r == SendNotificationResult(row, force, members, logs, p_script, s_script)
  IN  /\ Len(logs) <= MaxLogs
      /\ schedule' = (schedule \ {row}) \cup {[row EXCEPT !.notified = r.notified]}
      /\ logs' = logs \o r.written
      /\ last' = [ Called("send", r.status) EXCEPT
                     !.schedule_id = row.id, !.force = force,
                     !.member_id = row.team_member_id,
                     !.was_notified = row.notified,
                     !.retry_count = r.retry_count,
                     !.count = Len(r.written),
                     !.active_override = ActiveOverrideMember(overrides, row.id),
                     !.recipient = r.to,
                     !.primary = r.primary.events,
                     !.secondary = r.secondary.events ]
      /\ UNCHANGED <<manager, settings, members, shifts, overrides, now, requests, runs, paged>>

(* Dispatch for one generated Assignment: a roster with or without its     *)
(* first member (who has a secondary phone), the one-shift configuration,  *)
(* generate_schedule(Monday 00:00, weeks=1).                               *)
OneShift == <<Shift(1, 0, 24)>>

InitSend ==
  /\ requests = NoRequests
  /\ runs = NoRuns
  /\ paged = <<>>
  /\ members \in { InitMembers, DeactivateResult(InitMembers, 1) }
  /\ shifts = OneShift
  /\ schedule = GeneratedWeek(members, OneShift).rows
  /\ overrides = {}
  /\ logs = <<>>
  /\ now = 0
  /\ manager = NoManager
  /\ settings = DefaultSettings
  /\ last = [ Called("generate", "ok") EXCEPT !.weeks = 1, !.first_new_id = 1 ]

(* The provider's answers matter only on a channel the call reaches: the   *)
(* primary channel unless the call is skipped or refused for its retry     *)
(* count, the secondary channel if moreover the member has a second phone. *)
ReachesPrimary(row, force) ==
  /\ ~Skips(row, force)
  /\ ~BudgetExceeded(GetRetryCountForSchedule(logs, row.id))

ReachesSecondary(row, force) ==
  /\ ReachesPrimary(row, force)
  /\ members[row.team_member_id].secondary_phone

ScriptsFor(reached) ==
  IF reached THEN ProviderScripts ELSE { [i \in 1..max_retries |-> Sent] }

NextSend ==
  \/ \E row \in schedule, force \in BOOLEAN :
       \E p \in ScriptsFor(ReachesPrimary(row, force)),
          s \in ScriptsFor(ReachesSecondary(row, force)) :
         SendNotification(row, force, p, s)
  \/ \E sid \in {r.id : r \in schedule}, m \in MemberIds :
       CreateOverride(sid, m)

SpecSend == InitSend /\ [][NextSend]_vars

----------------------------------------------------------------------------
(* ScheduleManager and the job functions of scheduler/schedule_manager.py  *)

(* A job as add_job stores it under the scheduler's job_defaults.          *)
Job(id, func) ==
  [ id |-> id, func |-> func, coalesce |-> TRUE,
    max_instances |-> 1, misfire_grace_time |-> 300 ]

(* ScheduleManager.start                                                   *)
StartResult(mg) ==
  IF mg.is_running THEN mg
  ELSE [ is_running |-> TRUE,
         jobs |-> mg.jobs
                  \cup { Job("daily_oncall_notifications", "send_daily_notifications"),
                         Job("auto_renewal_check", "check_auto_renewal"),
                         Job("weekly_escalation_summary",
                             "send_weekly_escalation_summary") } ]

Start ==
  /\ manager' = StartResult(manager)
  /\ last' = Called("start", IF manager.is_running THEN "already_running" ELSE "ok")
  /\ UNCHANGED <<members, shifts, schedule, overrides, logs, now, settings, requests, runs, paged>>

(* The keyword parameters ScheduleService.get_pending_notifications        *)
(* declares, and those send_daily_notifications passes to it.              *)
GetPendingNotificationsParams == { "target_date" }

DailyJobKeywords == { "target_date", "force" }

(* 00:00 of the day of t.                                                  *)
DayStart(t) == t - (t % HoursPerDay)

(* ScheduleRepository.get_pending_notifications: the rows not notified     *)
(* that start between 00:00:00 and 23:59:59.999999 of the target date, in  *)
(* start_datetime order.                                                   *)
PendingRows(rows, t) ==
  { r \in rows : /\ ~r.notified
                 /\ r.start_datetime >= DayStart(t)
                 /\ r.start_datetime < DayStart(t) + HoursPerDay }

RECURSIVE ByStart(_)
ByStart(rows) ==
  IF rows = {} THEN <<>>
  ELSE LET first == CHOOSE r \in rows :
                      \A x \in rows :
                        \/ r.start_datetime < x.start_datetime
                        \/ r.start_datetime = x.start_datetime /\ r.id <= x.id
       IN  <<first>> \o ByStart(rows \ {first})

GetPendingNotifications(rows, t) == ByStart(PendingRows(rows, t))

NoBatch(rows, lg) ==
  [ rows |-> rows, logs |-> lg, results |-> <<>>,
    successful |-> 0, failed |-> 0, skipped |-> 0, total |-> 0 ]

(* A Schedule instance handed to the batch: the row's id and whether its   *)
(* team_member and shift are set.                                          *)
BatchItem(id, valid) == [ id |-> id, valid |-> valid ]

(* send_notification raises SMSServiceError for an instance without team   *)
(* member or shift, before anything else.                                  *)
RaisesSMSServiceError(item) == ~item.valid

CountNoErrors(result) ==
  [ successful |-> IF result.success /\ result.status # "skipped" THEN 1 ELSE 0,
    skipped |-> IF result.success /\ result.status = "skipped" THEN 1 ELSE 0,
    failed |-> IF ~result.success /\ result.status # "error" THEN 1 ELSE 0 ]

(* The counter send_batch_notifications increments for one item's result.  *)
Count(result) ==
  [ successful |-> IF result.success /\ result.status # "skipped" THEN 1 ELSE 0,
    skipped |-> IF result.success /\ result.status = "skipped" THEN 1 ELSE 0,
    failed |-> IF result.success THEN 0 ELSE 1 ]

(* The entry the except branch appends for an item that raised.            *)
ErrorResult(item) ==
  [ schedule_id |-> item.id, success |-> FALSE, status |-> "error" ]

(* SMSService.send_batch_notifications over the items of batch, in input   *)
(* order; scripts gives, per position of the batch, the provider's answers *)
(* on the primary and on the secondary channel.                            *)
RECURSIVE SendBatchNotifications(_, _, _, _, _, _)
SendBatchNotifications(batch, force, rows, ms, lg, scripts) ==
  IF batch = <<>> THEN NoBatch(rows, lg)
  ELSE
    LET item == Head(batch)
        row == CHOOSE x \in rows : x.id = item.id
        r == SendNotificationResult(row, force, ms, lg,
                                    Head(scripts)[1], Head(scripts)[2])
        result == IF RaisesSMSServiceError(item)
                    THEN ErrorResult(item)
                    ELSE [ schedule_id |-> item.id, success |-> r.success,
                           status |-> r.status ]
        rest == IF RaisesSMSServiceError(item)
                  THEN SendBatchNotifications(Tail(batch), force, rows, ms, lg,
                                              Tail(scripts))
                  ELSE SendBatchNotifications(
                         Tail(batch), force,
                         (rows \ {row}) \cup {[row EXCEPT !.notified = r.notified]},
                         ms, lg \o r.written, Tail(scripts))
    IN  [ rest EXCEPT
            !.results = <<result>> \o @,
            !.successful = @ + Count(result).successful,
            !.skipped = @ + Count(result).skipped,
            !.failed = @ + Count(result).failed,
            !.total = Len(batch) ]

(* send_daily_notifications(force): the exception it raises (or "ok"), the *)
(* rows and notification records it leaves, and the counts it returns.     *)
SendDailyNotificationsResult(rows, ms, lg, t, force, scripts) ==
  IF ~(DailyJobKeywords \subseteq GetPendingNotificationsParams)
    THEN NoBatch(rows, lg) @@ [ status |-> "TypeError" ]
  ELSE
    LET pending == GetPendingNotifications(rows, t)
        ids == [ i \in 1..Len(pending) |-> BatchItem(pending[i].id, TRUE) ]
    IN  IF pending = <<>>
          THEN NoBatch(rows, lg) @@ [ status |-> "ok" ]
          ELSE SendBatchNotifications(ids, force, rows, ms, lg, scripts)
               @@ [ status |-> "ok" ]

(* The provider's answers a run of the daily job can come to use.          *)
DailyScripts(rows, t) ==
  IF DailyJobKeywords \subseteq GetPendingNotificationsParams
    THEN [ 1..Cardinality(PendingRows(rows, t))
             -> ProviderScripts \X ProviderScripts ]
    ELSE { <<>> }

SendDailyNotifications(force, scripts) ==
  LET r == SendDailyNotificationsResult(schedule, members, logs, now, force, scripts)
  IN  /\ schedule' = r.rows
      /\ logs' = r.logs
      /\ last' = [ Called("daily", r.status) EXCEPT
                     !.force = force, !.count = r.total ]
      /\ UNCHANGED <<members, shifts, overrides, now, manager, settings, requests, runs, paged>>

(* A datetime read back from a Column(DateTime) carries no tzinfo.         *)
StoredDatetimeAware == FALSE

(* check_auto_renewal: "generated" says whether generate_schedule was      *)
(* called; status is then its outcome.                                     *)
CheckAutoRenewalResult(rows, ms, sh, st, t) ==
  IF ~st.auto_renew_enabled
    THEN [ status |-> "disabled", generated |-> FALSE, start |-> 0,
           rows |-> rows, kept |-> rows ]
  ELSE IF rows = {}
    THEN [ status |-> "no_schedules", generated |-> FALSE, start |-> 0,
           rows |-> rows, kept |-> rows ]
  ELSE
    LET furthest_date == MaxOf({ r.end_datetime : r \in rows })
        days_remaining == (furthest_date - t) \div HoursPerDay
    IN  IF days_remaining < DaysPerWeek * st.auto_renew_threshold_weeks
          THEN GenerateScheduleResult(rows, ms, sh, furthest_date,
                                      StoredDatetimeAware,
                                      st.auto_renew_weeks, FALSE)
               @@ [ generated |-> TRUE, start |-> furthest_date ]
          ELSE [ status |-> "not_needed", generated |-> FALSE, start |-> 0,
                 rows |-> rows, kept |-> rows ]

CheckAutoRenewal ==
  LET r == CheckAutoRenewalResult(schedule, members, shifts, settings, now)
  IN  /\ schedule' = r.rows
      /\ last' = [ GenerationCall("auto_renew", r, r.start, StoredDatetimeAware,
                                  settings.auto_renew_weeks, FALSE)
                     EXCEPT !.count = IF r.generated THEN 1 ELSE 0 ]
      /\ UNCHANGED <<members, shifts, overrides, logs, now, manager, settings, requests, runs, paged>>

(* SettingsService.set_auto_renew_enabled, set_auto_renew_threshold_weeks  *)
(* and set_auto_renew_weeks.                                               *)
SetAutoRenew(enabled, threshold_weeks, renew_weeks) ==
  /\ settings' = [ auto_renew_enabled |-> enabled,
                   auto_renew_threshold_weeks |-> threshold_weeks,
                   auto_renew_weeks |-> renew_weeks ]
  /\ last' = Called("set_auto_renew", "ok")
  /\ UNCHANGED <<members, shifts, schedule, overrides, logs, now, manager, requests, runs, paged>>

(* The jobs over a one-shift configuration and the full roster.            *)
InitJobs ==
  /\ requests = NoRequests
  /\ runs = NoRuns
  /\ paged = <<>>
  /\ members = InitMembers
  /\ shifts = OneShift
  /\ schedule = {}
  /\ overrides = {}
  /\ logs = <<>>
  /\ now = 0
  /\ manager = NoManager
  /\ settings = DefaultSettings
  /\ last = NoCall

NextJobs ==
  \/ Start
  \/ \E force \in BOOLEAN : \E scripts \in DailyScripts(schedule, now) :
       SendDailyNotifications(force, scripts)
  \/ CheckAutoRenewal
  \/ \E e \in BOOLEAN, th \in {1, 4}, w \in {1, 52} : SetAutoRenew(e, th, w)
  \/ \E w \in 1..MaxWeeks : GenerateSchedule(0, TRUE, w, FALSE)
  \/ Tick

SpecJobs == InitJobs /\ [][NextJobs]_vars

----------------------------------------------------------------------------
(* Batch dispatch                                                          *)

MaxBatch == 2

(* The provider's answers tried for a batch item: accepted at once, or a   *)
(* server error on every attempt.                                          *)
BatchScripts ==
  { [i \in 1..max_retries |-> Sent],
    [i \in 1..max_retries |-> ServerError] }

(* Lists of stored rows, each with or without its team member set.         *)
Batches(rows) ==
  UNION { [ 1..n -> { BatchItem(r.id, v) : r \in rows, v \in BOOLEAN } ]
          : n \in 0..MaxBatch }

AcceptedAtOnce == [i \in 1..max_retries |-> Sent]

(* No channel is asked for an item that raises, and the secondary channel  *)
(* only for a member with a second phone.                                  *)
BatchScriptsFor(batch, rows, ms) ==
  { sc \in [ 1..Len(batch) -> BatchScripts \X {AcceptedAtOnce} ] :
      \A i \in 1..Len(batch) :
        RaisesSMSServiceError(batch[i]) => sc[i][1] = AcceptedAtOnce }

SendBatch(batch, force, scripts) ==
  LET r == SendBatchNotifications(batch, force, schedule, members, logs, scripts)
  IN  /\ Len(logs) < MaxBatch
      /\ schedule' = r.rows
      /\ logs' = r.logs
      /\ last' = [ Called("batch", "ok") EXCEPT
                     !.force = force, !.count = r.total,
                     !.batch = batch, !.results = r.results,
                     !.successful = r.successful, !.failed = r.failed,
                     !.skipped = r.skipped ]
      /\ UNCHANGED <<members, shifts, overrides, now, manager, settings, requests, runs, paged>>

(* A roster of one member, who has no second phone.                        *)
OnePhoneTeam ==
  << [ is_active |-> TRUE, rotation_order |-> 1, secondary_phone |-> FALSE ] >>

(* Batches over two generated weeks of the one-shift configuration.        *)
InitBatch ==
  /\ requests = NoRequests
  /\ runs = NoRuns
  /\ paged = <<>>
  /\ members = OnePhoneTeam
  /\ shifts = OneShift
  /\ schedule = GenerateScheduleResult({}, OnePhoneTeam, OneShift, 0, TRUE, 2, FALSE).rows
  /\ overrides = {}
  /\ logs = <<>>
  /\ now = 0
  /\ manager = NoManager
  /\ settings = DefaultSettings
  /\ last = [ Called("generate", "ok") EXCEPT !.weeks = 2, !.first_new_id = 1 ]

NextBatch ==
  \E batch \in Batches(schedule), force \in BOOLEAN :
    \E scripts \in BatchScriptsFor(batch, schedule, members) :
      SendBatch(batch, force, scripts)

SpecBatch == InitBatch /\ [][NextBatch]_vars

----------------------------------------------------------------------------
(* Manual notifications                                                    *)

(* schedule_id = None                                                      *)
NoSchedule == 0

(* Whether notification_log.schedule_id accepts NULL: the table built by   *)
(* init_db from the model declares it NOT NULL, the table left by          *)
(* migration aea7552f1a21 declares it nullable.                            *)
ScheduleIdNullable == BOOLEAN

ManualLogRowOfFirstSchedule(status, member) ==
  LogRow(1, status, member, Phone(member, "primary"))

(* The row send_manual_notification hands to log_notification_attempt.     *)
ManualLogRow(status, member) ==
  LogRow(NoSchedule, status, member, Phone(member, "primary"))

(* log_notification_attempt for a manual row: the rows it adds, none when  *)
(* the insert is rejected (it then raises).                                *)
ManualLogWritten(status, member, nullable) ==
  IF nullable THEN << ManualLogRow(status, member) >> ELSE <<>>

(* SMSService.send_manual_notification: one provider call, then the row of *)
(* the branch taken.  A rejected insert after an accepted message is       *)
(* caught by the generic handler, whose own insert is rejected too; a      *)
(* rejected insert inside the TwilioRestException handler leaves the call  *)
(* with an exception.                                                      *)
SendManualNotificationResult(member, outcome, nullable) ==
  IF outcome.kind = "sent"
    THEN [ status |-> IF nullable THEN "sent" ELSE "failed",
           written |-> ManualLogWritten("sent", member, nullable) ]
  ELSE IF outcome.kind = "twilio"
    THEN [ status |-> IF nullable THEN "failed" ELSE "Exception",
           written |-> ManualLogWritten("failed", member, nullable) ]
  ELSE [ status |-> "failed",
         written |-> ManualLogWritten("failed", member, nullable) ]

SendManualNotification(member, outcome, nullable) ==
  LET r == SendManualNotificationResult(member, outcome, nullable)
  IN  /\ Len(logs) <= MaxLogs
      /\ logs' = logs \o r.written
      /\ last' = [ Called("manual", r.status) EXCEPT
                     !.member_id = member, !.recipient = member,
                     !.count = Len(r.written),
                     !.primary = << SendEvent(outcome) >> ]
      /\ UNCHANGED <<members, shifts, schedule, overrides, now, manager, settings, requests, runs, paged>>

(* Manual sends next to scheduled ones for one generated Assignment.       *)
NextManual ==
  \/ \E member \in DOMAIN members, outcome \in Outcomes, nullable \in ScheduleIdNullable :
       SendManualNotification(member, outcome, nullable)
  \/ \E row \in schedule, force \in BOOLEAN :
       \E p \in IF ReachesPrimary(row, force) THEN BatchScripts ELSE {AcceptedAtOnce},
          s \in IF ReachesSecondary(row, force) THEN BatchScripts ELSE {AcceptedAtOnce} :
         SendNotification(row, force, p, s)

SpecManual == InitSend /\ [][NextManual]_vars

----------------------------------------------------------------------------
(* generate_schedule(force=False) run by concurrent request threads, each  *)
(* with its own session on the one table: the existence check is one       *)
(* SELECT, bulk_create one later transaction, and no lock or unique        *)
(* constraint joins the two.                                               *)

(* The rows a call will add once its existence check has passed.           *)
PendingEntries(ms, sh, start_date, weeks) ==
  IF RotationError(ms, sh, TRUE, weeks) # "ok" THEN <<>>
  ELSE GenerateRotation(GetTeamMembers(ms), sh, start_date, weeks)

(* An insert that looks at the stored rows again and adds nothing when the *)
(* range has been filled since the check.                                  *)
InsertGeneratedIfStillFree(rows, ms, sh, start_date, weeks) ==
  IF GetByDateRange(rows, start_date, start_date + weeks * HoursPerWeek) # {}
    THEN [status |-> "ScheduleAlreadyExistsError", rows |-> rows, kept |-> rows]
    ELSE [status |-> "ok", kept |-> rows,
          rows |-> BulkCreate(rows, PendingEntries(ms, sh, start_date, weeks))]

(* generate_schedule after the check: generate_rotation, then bulk_create  *)
(* on the rows stored by then.                                             *)
InsertGenerated(rows, ms, sh, start_date, weeks) ==
  LET err == RotationError(ms, sh, TRUE, weeks)
  IN  IF err # "ok" THEN [status |-> err, rows |-> rows, kept |-> rows]
      ELSE [status |-> "ok", kept |-> rows,
            rows |-> BulkCreate(rows, PendingEntries(ms, sh, start_date, weeks))]

(* The rows that the calls between check and insert are still to add.      *)
RECURSIVE RowsInProgress(_, _)
RowsInProgress(reqs, S) ==
  IF S = {} THEN 0
  ELSE LET c == CHOOSE x \in S : TRUE
       IN  (IF reqs[c].pc = "checked"
              THEN Len(PendingEntries(members, shifts, reqs[c].start, reqs[c].weeks))
              ELSE 0) + RowsInProgress(reqs, S \ {c})

(* generate_schedule up to the existence check: it raises, or goes on with *)
(* nothing written yet.                                                    *)
CheckExisting(c, start_date, weeks) ==
  /\ requests[c].pc = "idle"
  /\ Cardinality(schedule) + RowsInProgress(requests, Callers)
       + Len(PendingEntries(members, shifts, start_date, weeks)) <= MaxRows
  /\ LET existing == GetByDateRange(schedule, start_date,
                                    start_date + weeks * HoursPerWeek)
         call == [ pc |-> "idle", start |-> start_date, weeks |-> weeks, inserted |-> 0 ]
     IN  IF existing # {}
           THEN /\ requests' = [requests EXCEPT ![c] = call]
                /\ last' = [ Called("generate", "ScheduleAlreadyExistsError") EXCEPT
                               !.start = start_date, !.weeks = weeks ]
           ELSE /\ requests' = [requests EXCEPT ![c] = [call EXCEPT !.pc = "checked"]]
                /\ last' = last
  /\ UNCHANGED <<members, shifts, schedule, overrides, logs, now, manager, settings, runs, paged>>

(* The rest of the call, run whenever its thread is scheduled.             *)
Insert(c) ==
  /\ requests[c].pc = "checked"
  /\ LET r == InsertGenerated(schedule, members, shifts,
                              requests[c].start, requests[c].weeks)
     IN  /\ schedule' = r.rows
         /\ last' = GenerationCall("generate", r, requests[c].start, TRUE,
                                   requests[c].weeks, FALSE)
         /\ requests' = [requests EXCEPT ![c].pc = "idle",
                                         ![c].inserted = Cardinality(r.rows \ schedule)]
  /\ UNCHANGED <<members, shifts, overrides, logs, now, manager, settings, runs, paged>>

(* Mondays 00:00, so that calls made one after the other never overlap     *)
(* without the later one being refused.                                    *)
MondayStarts == { w * HoursPerWeek : w \in 0..(MaxStartWeek + 1) }

InitConcurrent ==
  /\ requests = NoRequests
  /\ runs = NoRuns
  /\ paged = <<>>
  /\ members = InitMembers
  /\ shifts \in { OneShift, TwoShifts }
  /\ schedule = {}
  /\ overrides = {}
  /\ logs = <<>>
  /\ now = 0
  /\ manager = NoManager
  /\ settings = DefaultSettings
  /\ last = NoCall

NextConcurrent ==
  \/ \E c \in Callers, d \in MondayStarts, w \in 1..MaxWeeks : CheckExisting(c, d, w)
  \/ \E c \in Callers : Insert(c)

SpecConcurrent == InitConcurrent /\ [][NextConcurrent]_vars

----------------------------------------------------------------------------
(* Weekly summary                                                          *)

(* .date() of a datetime, as a day number.                                 *)
DateOf(t) == t \div HoursPerDay

(* send_weekly_escalation_summary: the Monday 00:00 that opens the week it *)
(* queries.                                                                *)
NextMonday(t) ==
  LET weekday == DateOf(t) % DaysPerWeek
      hour == t % HoursPerDay
      until == (DaysPerWeek - weekday) % DaysPerWeek
      days_until_monday == IF until = 0 /\ hour > 8 THEN DaysPerWeek ELSE until
  IN  DayStart(t + days_until_monday * HoursPerDay)

(* The rows the job hands to the composer: get_by_date_range from that     *)
(* Monday to the following Sunday 23:59:59, in start_datetime order.       *)
WeekSchedules(rows, t) ==
  ByStart(GetByDateRange(rows, NextMonday(t),
                         NextMonday(t) + DaysPerWeek * HoursPerDay - 1))

(* schedule_map: the last listed row of each start date.                   *)
ScheduleMap(schedules) ==
  [ d \in { DateOf(schedules[i].start_datetime) : i \in DOMAIN schedules } |->
      schedules[MaxOf({ i \in DOMAIN schedules :
                          DateOf(schedules[i].start_datetime) = d })] ]

Line(date, kind, member) == [ date |-> date, kind |-> kind, member |-> member ]

(* The loop over day_offset in _compose_weekly_summary; previous_schedule  *)
(* is the empty sequence for None, else the one-row sequence.              *)
RECURSIVE SummaryLines(_, _, _, _, _, _)
SummaryLines(day_offset, start_date, schedule_map, sh, previous_schedule, is_continuation) ==
  IF day_offset >= DaysPerWeek THEN <<>>
  ELSE
    LET current_date == DateOf(start_date + day_offset * HoursPerDay)
    IN  IF current_date \in DOMAIN schedule_map
          THEN
            LET sched == schedule_map[current_date]
                duration ==
                  sh[CHOOSE k \in DOMAIN sh : sh[k].id = sched.shift_id].duration_hours
                continues ==
                  /\ previous_schedule # <<>>
                  /\ previous_schedule[1].team_member_id = sched.team_member_id
                  /\ is_continuation
                line == IF continues
                          THEN Line(current_date, "continues", sched.team_member_id)
                        ELSE IF duration = 48
                          THEN Line(current_date, "48h", sched.team_member_id)
                        ELSE Line(current_date, "assignment", sched.team_member_id)
            IN  <<line>> \o SummaryLines(day_offset + 1, start_date, schedule_map, sh,
                                         <<sched>>, ~continues /\ duration = 48)
          ELSE
            IF is_continuation /\ previous_schedule # <<>>
              THEN << Line(current_date, "continues", previous_schedule[1].team_member_id) >>
                   \o SummaryLines(day_offset + 1, start_date, schedule_map, sh,
                                   previous_schedule, FALSE)
              ELSE << Line(current_date, "none", 0) >>
                   \o SummaryLines(day_offset + 1, start_date, schedule_map, sh,
                                   <<>>, FALSE)

(* SMSService._compose_weekly_summary: the seven lines of the digest.      *)
ComposeWeeklySummary(schedules, sh, t) ==
  LET start_date == IF schedules = <<>> THEN DayStart(t)
                    ELSE schedules[1].start_datetime
  IN  SummaryLines(0, start_date, ScheduleMap(schedules), sh, <<>>, FALSE)

(* The weekly job's query and digest for the week that follows now.        *)
WeeklySummary ==
  /\ last' = [ Called("weekly_summary", "ok") EXCEPT
                 !.start = NextMonday(now),
                 !.count = Len(WeekSchedules(schedule, now)),
                 !.digest = ComposeWeeklySummary(WeekSchedules(schedule, now),
                                                 shifts, now) ]
  /\ UNCHANGED <<members, shifts, schedule, overrides, logs, now, manager, settings, requests, runs, paged>>

SummaryShifts ==
  { OneShift, <<Shift(1, 1, 48)>>, TwoShifts, <<Shift(1, 1, 48), Shift(2, 3, 24)>> }

InitSummary ==
  /\ requests = NoRequests
  /\ runs = NoRuns
  /\ paged = <<>>
  /\ members = InitMembers
  /\ shifts \in SummaryShifts
  /\ schedule = {}
  /\ overrides = {}
  /\ logs = <<>>
  /\ now = 0
  /\ manager = NoManager
  /\ settings = DefaultSettings
  /\ last = NoCall

NextSummary ==
  \/ WeeklySummary
  \/ \E w \in 1..MaxWeeks : GenerateSchedule(0, TRUE, w, FALSE)
  \/ Tick

SpecSummary == InitSummary /\ [][NextSummary]_vars


----------------------------------------------------------------------------
(* Scheduled notifications over generated and regenerated ranges           *)

(* The list ScheduleService.get_pending_notifications(target_date) hands   *)
(* to send_batch_notifications: loaded rows, team member and shift set.    *)
PendingBatch(rows, t) ==
  LET pending == GetPendingNotifications(rows, t)
  IN  [ i \in 1..Len(pending) |-> BatchItem(pending[i].id, TRUE) ]

(* The pages among a batch's results; rows are the rows it was run on.     *)
PagesOf(results, rows) ==
  LET sent == SelectSeq(results, LAMBDA x : x.status = "sent")
  IN  [ i \in 1..Len(sent) |-> Page(CHOOSE r \in rows : r.id = sent[i].schedule_id) ]

(* send_batch_notifications(get_pending_notifications(now), force=False),  *)
(* the two calls a run of the daily function is written around.            *)
SendPending(scripts) ==
  LET batch == PendingBatch(schedule, now)
      r == SendBatchNotifications(batch, FALSE, schedule, members, logs, scripts)
  IN  /\ Len(logs) < MaxLogs
      /\ schedule' = r.rows
      /\ logs' = r.logs
      /\ paged' = paged \o PagesOf(r.results, schedule)
      /\ last' = [ Called("batch", "ok") EXCEPT
                     !.count = r.total, !.batch = batch, !.results = r.results,
                     !.successful = r.successful, !.failed = r.failed,
                     !.skipped = r.skipped ]
      /\ UNCHANGED <<members, shifts, overrides, now, manager, settings, requests, runs>>

InitPaging ==
  /\ requests = NoRequests
  /\ runs = NoRuns
  /\ paged = <<>>
  /\ members = OnePhoneTeam
  /\ shifts \in { OneShift, TwoShifts }
  /\ schedule = {}
  /\ overrides = {}
  /\ logs = <<>>
  /\ now = 0
  /\ manager = NoManager
  /\ settings = DefaultSettings
  /\ last = NoCall

NextPaging ==
  \/ \E d \in MondayStarts, w \in 1..MaxWeeks, f \in BOOLEAN : GenerateSchedule(d, TRUE, w, f)
  \/ \E d \in MondayStarts, w \in 1..MaxWeeks : RegenerateFromDate(d, TRUE, w)
  \/ \E scripts \in BatchScriptsFor(PendingBatch(schedule, now), schedule, members) :
       SendPending(scripts)
  \/ Tick

SpecPaging == InitPaging /\ [][NextPaging]_vars


----------------------------------------------------------------------------
(* Two runs of the daily notification function at once: the scheduled job  *)
(* (max_instances = 1 keeps it from overlapping itself) and a manual       *)
(* trigger, which calls the function directly from a request thread. Each  *)
(* run has a session of its own; a step is what one run does between two   *)
(* points at which the other can see or change the table.                  *)

(* The run's query: the pending rows of today, loaded into its session.    *)
QueryPending(r) ==
  /\ runs[r].pc = "idle"
  /\ Len(logs) < MaxLogs
  /\ LET batch == PendingBatch(schedule, now)
     IN  runs' = [runs EXCEPT ![r] =
                    IF batch = <<>> THEN IdleRun
                    ELSE [ pc |-> "loop", batch |-> batch, item |-> 1 ]]
  /\ UNCHANGED <<members, shifts, schedule, overrides, logs, now, last, manager,
                 settings, requests, paged>>

(* What schedule.notified gives at the head of send_notification: for the  *)
(* first item the value loaded by the query (a pending row: False); for a  *)
(* later item the stored value, since the commits of the item before have  *)
(* expired the session's instances.                                        *)
NotifiedAsSeen(run, rows) ==
  IF run.item = 1 THEN FALSE
  ELSE (CHOOSE x \in rows : x.id = run.batch[run.item].id).notified

Advance(run) ==
  IF run.item = Len(run.batch) THEN IdleRun
  ELSE [ run EXCEPT !.pc = "loop", !.item = @ + 1 ]

(* send_notification up to the notified check (force=False).               *)
CheckNotified(r) ==
  /\ runs[r].pc = "loop"
  /\ runs' = [runs EXCEPT ![r] =
                IF NotifiedAsSeen(runs[r], schedule) THEN Advance(runs[r])
                ELSE [ runs[r] EXCEPT !.pc = "sending" ]]
  /\ UNCHANGED <<members, shifts, schedule, overrides, logs, now, last, manager,
                 settings, requests, paged>>

(* The rest of send_notification for the item: record count, provider      *)
(* calls, notification records, notified flag.                             *)
SendItem(r, p_script, s_script) ==
  /\ runs[r].pc = "sending"
  /\ LET row == CHOOSE x \in schedule : x.id = runs[r].batch[runs[r].item].id
         res == SendNotificationResult([row EXCEPT !.notified = FALSE], FALSE,
                                       members, logs, p_script, s_script)
     IN  /\ schedule' = (schedule \ {row})
                          \cup {[row EXCEPT !.notified = res.notified \/ row.notified]}
         /\ logs' = logs \o res.written
         /\ paged' = IF res.status = "sent" THEN Append(paged, Page(row)) ELSE paged
         /\ last' = [ Called("send", res.status) EXCEPT
                        !.schedule_id = row.id,
                        !.member_id = row.team_member_id,
                        !.was_notified = row.notified,
                        !.retry_count = res.retry_count,
                        !.count = Len(res.written),
                        !.recipient = res.to,
                        !.primary = res.primary.events,
                        !.secondary = res.secondary.events ]
  /\ runs' = [runs EXCEPT ![r] = Advance(runs[r])]
  /\ UNCHANGED <<members, shifts, overrides, now, manager, settings, requests>>

InitTrigger ==
  /\ requests = NoRequests
  /\ runs = NoRuns
  /\ paged = <<>>
  /\ members = OnePhoneTeam
  /\ shifts \in { OneShift, <<Shift(1, 0, 24), Shift(2, 0, 48)>> }
  /\ schedule = GenerateScheduleResult({}, OnePhoneTeam, shifts, 0, TRUE, 1, FALSE).rows
  /\ overrides = {}
  /\ logs = <<>>
  /\ now = 0
  /\ manager = NoManager
  /\ settings = DefaultSettings
  /\ last = [ Called("generate", "ok") EXCEPT !.weeks = 1, !.first_new_id = 1 ]

NextTrigger ==
  \/ \E r \in Runners : QueryPending(r)
  \/ \E r \in Runners : CheckNotified(r)
  \/ \E r \in Runners, p \in BatchScripts : SendItem(r, p, AcceptedAtOnce)

SpecTrigger == InitTrigger /\ [][NextTrigger]_vars


----------------------------------------------------------------------------
(* Extension of the horizon from the furthest end date                     *)

(* The generate_schedule call check_auto_renewal makes when renewal is     *)
(* due (start_date = furthest end date, weeks = auto_renew_weeks,          *)
(* force=False), for a furthest_date that carries a timezone.              *)
RenewalGenerateResult(rows, ms, sh, st) ==
  GenerateScheduleResult(rows, ms, sh, MaxOf({ r.end_datetime : r \in rows }),
                         TRUE, st.auto_renew_weeks, FALSE)

RenewFromFurthest ==
  LET r == RenewalGenerateResult(schedule, members, shifts, settings)
  IN  /\ schedule # {}
      /\ Cardinality(r.rows) <= MaxRows
      /\ schedule' = r.rows
      /\ last' = GenerationCall("renew", r, MaxOf({ x.end_datetime : x \in schedule }),
                                TRUE, settings.auto_renew_weeks, FALSE)
      /\ UNCHANGED <<members, shifts, overrides, logs, now, manager, settings,
                     requests, runs, paged>>

(* One shift ending inside its week, one ending on the Monday after, and   *)
(* the two-shift configuration.                                            *)
RenewalShifts == { OneShift, <<Shift(1, 6, 24)>>, TwoShifts }

InitRenewal ==
  /\ requests = NoRequests
  /\ runs = NoRuns
  /\ paged = <<>>
  /\ members = InitMembers
  /\ shifts \in RenewalShifts
  /\ schedule = {}
  /\ overrides = {}
  /\ logs = <<>>
  /\ now = 0
  /\ manager = NoManager
  /\ settings \in { [DefaultSettings EXCEPT !.auto_renew_weeks = w] : w \in 1..MaxWeeks }
  /\ last = NoCall

NextRenewal ==
  \/ \E d \in MondayStarts, w \in 1..MaxWeeks : GenerateSchedule(d, TRUE, w, FALSE)
  \/ CheckAutoRenewal
  \/ RenewFromFurthest
  \/ Tick

SpecRenewal == InitRenewal /\ [][NextRenewal]_vars


----------------------------------------------------------------------------
(* Classification of HTTP errors in the retry loop                         *)

(* A TwilioRestException built from an HTTP status alone (code is None).   *)
HttpError(status) == [kind |-> "twilio", status |-> status, code |-> 0]

(* 429 and the server errors 500 to 504.                                   *)
HttpStatuses == {429} \cup (500..504)

(* Answers of the provider on one channel: an HTTP error or acceptance at  *)
(* each call, nothing asked after an acceptance.                           *)
HttpScripts ==
  { sc \in [1..max_retries -> {Sent} \cup { HttpError(s) : s \in HttpStatuses }] :
      \A i, j \in 1..max_retries : (i < j /\ sc[i] = Sent) => sc[j] = Sent }

(* The first send_notification for the generated Assignment.               *)
NextClassify ==
  \E row \in schedule, force \in BOOLEAN, p \in HttpScripts :
    /\ logs = <<>>
    /\ SendNotification(row, force, p, AcceptedAtOnce)

SpecClassify == InitSend /\ [][NextClassify]_vars


----------------------------------------------------------------------------
(* Rotation over teams larger than the number of shifts and of weeks       *)

InitLargeTeam ==
  /\ requests = NoRequests
  /\ runs = NoRuns
  /\ paged = <<>>
  /\ members \in { Team(n) : n \in 1..(MaxTeam + 1) }
  /\ shifts \in { WeekdayShifts(k) : k \in 1..MaxTeam }
  /\ schedule = {}
  /\ overrides = {}
  /\ logs = <<>>
  /\ now = 0
  /\ manager = NoManager
  /\ settings = DefaultSettings
  /\ last = NoCall

SpecLargeTeam == InitLargeTeam /\ [][NextRotation]_vars

----------------------------------------------------------------------------
(* Generation lifecycle properties                                         *)

(* The calendar weeks two generation requests produce rows for intersect.  *)
WeeksOverlap(s1, w1, s2, w2) ==
  /\ GetWeekStart(s1) < GetWeekStart(s2) + w2 * HoursPerWeek
  /\ GetWeekStart(s2) < GetWeekStart(s1) + w1 * HoursPerWeek

(* C1: after a successful generate with force=false, a generate with       *)
(* force=false for overlapping weeks (an identical call included) fails    *)
(* with ScheduleAlreadyExists and leaves the stored Assignments unchanged. *)
C1_SecondGenerateRefused ==
  [][ ( /\ last.op = "generate" /\ last.status = "ok" /\ ~last.force
        /\ last'.op = "generate" /\ ~last'.force
        /\ last'.aware /\ last'.weeks >= 1
        /\ WeeksOverlap(last.start, last.weeks, last'.start, last'.weeks) )
      => ( /\ last'.status = "ScheduleAlreadyExistsError"
           /\ schedule' = schedule ) ]_vars

(* C2: a generate or regenerateFrom call that fails leaves the stored      *)
(* Assignments exactly as they were; nothing has been deleted.             *)
C2_FailureLeavesScheduleUnchanged ==
  [][ (last'.op \in {"generate", "regenerate"} /\ last'.status # "ok")
      => schedule' = schedule ]_vars

(* C3: regenerateFrom(d, w) keeps every Assignment that starts before d,   *)
(* unchanged, whether the call succeeds or fails.                          *)
C3_RegeneratePreservesHistory ==
  [][ last'.op = "regenerate"
      => \A r \in schedule : r.start_datetime < last'.start => r \in schedule' ]_vars

(* A regenerateFrom that deleted rows and inserted new ones while an older *)
(* row starting before d is still stored.                                  *)
C3_Witness ==
  /\ last.op = "regenerate" /\ last.status = "ok" /\ last.deleted > 0
  /\ \E r \in schedule : r.start_datetime < last.start /\ r.id < last.first_new_id

----------------------------------------------------------------------------
(* Override properties (SpecOverride)                                      *)

AtMostOneActive ==
  \A o \in overrides :
    Cardinality(GetOverrideForSchedule(overrides, o.schedule_id)) <= 1

(* C4: after any sequence of create_override, cancel_override and          *)
(* complete_past_overrides calls every Assignment has at most one active   *)
(* Override, and a create_override on an Assignment that has an active     *)
(* Override fails and adds no row.  (A step that leaves the clock alone    *)
(* and has create_override as its call is a create_override call.)         *)
C4_AtMostOneActiveOverride ==
  [][ /\ AtMostOneActive'
      /\ ( /\ last'.op = "create_override"
           /\ now' = now
           /\ GetOverrideForSchedule(overrides, last'.schedule_id) # {} )
         => ( /\ last'.status # "ok"
              /\ overrides' = overrides ) ]_vars

C4_Witness ==
  /\ last.op = "create_override"
  /\ last.status = "DuplicateActive"
  /\ Cardinality(GetOverrideForSchedule(overrides, last.schedule_id)) = 1
  /\ \E o \in overrides : o.schedule_id = last.schedule_id /\ o.status = "cancelled"

----------------------------------------------------------------------------
(* Dispatch properties (SpecSend)                                          *)

ChannelsOf(call) == { call.primary, call.secondary }

Positions(events, kind) == { i \in 1..Len(events) : events[i].e = kind }

RowOf(rows, id) == CHOOSE r \in rows : r.id = id

(* C5: a send for an Assignment that has an active Override goes to the    *)
(* covering member's phone numbers, not to the original member's.          *)
C5_SendGoesToCoveringMember ==
  [][ ( /\ last'.op = "send"
        /\ last'.active_override # 0
        /\ last'.primary # <<>> )
      => last'.recipient = last'.active_override ]_vars

(* C6: a send for an Assignment with notified = true and force = false     *)
(* returns skipped, calls the provider on no channel and writes no         *)
(* NotificationRecord.                                                     *)
C6_NotifiedIsSkipped ==
  [][ ( /\ last'.op = "send"
        /\ RowOf(schedule, last'.schedule_id).notified
        /\ ~last'.force )
      => ( /\ last'.status = "skipped"
           /\ last'.primary = <<>>
           /\ last'.secondary = <<>>
           /\ logs' = logs
           /\ schedule' = schedule ) ]_vars

C6_Witness ==
  /\ last.op = "send"
  /\ last.was_notified
  /\ ~last.force
  /\ last.status = "skipped"
  /\ logs # <<>>

(* C7 as stated: whenever the Assignment has at least max_retries prior    *)
(* NotificationRecords, the send returns failed, calls the provider on no  *)
(* channel and leaves notified unchanged.                                  *)
C7_BudgetRefusesAlways ==
  [][ ( /\ last'.op = "send"
        /\ GetRetryCountForSchedule(logs, last'.schedule_id) >= max_retries )
      => ( /\ last'.status = "failed"
           /\ last'.primary = <<>>
           /\ last'.secondary = <<>>
           /\ schedule' = schedule ) ]_vars

(* C7 amended: when the send is not skipped (notified is false or force    *)
(* is true) and the Assignment has at least max_retries prior              *)
(* NotificationRecords, the send returns failed, calls the provider on no  *)
(* channel, leaves notified unchanged and writes one failed record.        *)
C7_BudgetRefusesUnlessSkipped ==
  [][ ( /\ last'.op = "send"
        /\ ~(RowOf(schedule, last'.schedule_id).notified /\ ~last'.force)
        /\ GetRetryCountForSchedule(logs, last'.schedule_id) >= max_retries )
      => ( /\ last'.status = "failed"
           /\ last'.primary = <<>>
           /\ last'.secondary = <<>>
           /\ schedule' = schedule
           /\ Len(logs') = Len(logs) + 1
           /\ logs'[Len(logs')].status = "failed" ) ]_vars

C7_Witness ==
  /\ last.op = "send"
  /\ last.status = "failed"
  /\ last.retry_count >= max_retries
  /\ last.primary = <<>>
  /\ last.was_notified
  /\ last.force

(* C8 as stated: a channel on which the provider raised a non-retryable    *)
(* error has exactly one NotificationRecord written in the call.           *)
C8_NonRetryableOneRecord ==
  [][ last'.op = "send" =>
        \A ch \in ChannelsOf(last') :
          (\E i \in Positions(ch, "send") : ch[i].outcome = InvalidNumber)
            => Cardinality(Positions(ch, "log")) = 1 ]_vars

(* C8 amended: the attempt on which the provider raised a non-retryable    *)
(* error writes exactly one failed NotificationRecord and is the channel's *)
(* last: no backoff sleep and no send follows it; the channel has as many  *)
(* records in the call as send attempts up to and including that one.      *)
C8_NonRetryableEndsLoop ==
  [][ last'.op = "send" =>
        \A ch \in ChannelsOf(last') :
          \A i \in Positions(ch, "send") :
            ch[i].outcome = InvalidNumber
              => ( /\ Len(ch) = i + 1
                   /\ ch[i + 1] = LogEvent("failed")
                   /\ Cardinality(Positions(ch, "log"))
                        = Cardinality(Positions(ch, "send")) ) ]_vars

C8_Witness ==
  /\ last.op = "send"
  /\ Len(last.primary) = 5
  /\ last.primary[1] = SendEvent(ServerError)
  /\ last.primary[4] = SendEvent(InvalidNumber)
  /\ Len(logs) = 2

Succeeded(events) == \E i \in Positions(events, "send") : events[i].outcome = Sent

(* C9: a send sets notified to true exactly when the provider accepted the *)
(* message on the primary or on the secondary channel; otherwise the flag  *)
(* keeps its value.                                                        *)
C9_NotifiedIffEitherChannel ==
  [][ last'.op = "send" =>
        LET delivered == Succeeded(last'.primary) \/ Succeeded(last'.secondary)
            before == RowOf(schedule, last'.schedule_id).notified
            after == RowOf(schedule', last'.schedule_id).notified
        IN  /\ delivered => after
            /\ ~delivered => after = before
            /\ (last'.status = "sent") = delivered ]_vars

C9_Witness ==
  /\ last.op = "send"
  /\ ~last.was_notified
  /\ Cardinality(Positions(last.primary, "send")) >= 1
  /\ ~Succeeded(last.primary)
  /\ Succeeded(last.secondary)
  /\ RowOf(schedule, last.schedule_id).notified

C11_ForceAlwaysSends ==
  [][ ( /\ last'.op = "send"
        /\ last'.force
        /\ RowOf(schedule, last'.schedule_id).notified )
      => ( /\ last'.status \notin {"skipped"}
           /\ Positions(last'.primary, "send") # {} ) ]_vars

----------------------------------------------------------------------------
(* Rotation properties (SpecRotation).  They are read in the state a       *)
(* successful generate_schedule call leaves: Created is the rows the call  *)
(* inserted, WeekOf a row's week counted from the Monday of the call's     *)
(* start_date, PositionOf the 0-based position of its shift in             *)
(* shift_number order.                                                     *)

IsGenerated == last.op = "generate" /\ last.status = "ok"

Created ==
  { r \in schedule : last.first_new_id # 0 /\ r.id >= last.first_new_id }

WeekOf(r) ==
  (GetWeekStart(r.start_datetime) - GetWeekStart(last.start)) \div HoursPerWeek

PositionOf(r) == (CHOOSE k \in DOMAIN shifts : shifts[k].id = r.shift_id) - 1

CreatedAt(w, i) == { r \in Created : WeekOf(r) = w /\ PositionOf(r) = i }

(* C12: with as many shifts as rotation members, each generated week puts  *)
(* every member on exactly one shift, and in any run of that many          *)
(* consecutive generated weeks every member has every shift exactly once.  *)
C12_EqualCountsBijectionAndCoverage ==
  (IsGenerated /\ Cardinality(ActiveIds(members)) = Len(shifts)) =>
    LET n == Len(shifts)
    IN  /\ \A w \in 0..(last.weeks - 1) :
             /\ \A i \in 0..(n - 1) : Cardinality(CreatedAt(w, i)) = 1
             /\ { r.team_member_id : r \in { x \in Created : WeekOf(x) = w } }
                  = ActiveIds(members)
        /\ \A w0 \in 0..(last.weeks - n) :
             \A a \in ActiveIds(members), i \in 0..(n - 1) :
               Cardinality({ w \in w0..(w0 + n - 1) :
                               \E r \in CreatedAt(w, i) : r.team_member_id = a }) = 1

C12_Witness ==
  /\ IsGenerated
  /\ Cardinality(ActiveIds(members)) = Len(shifts)
  /\ Len(shifts) >= 2
  /\ Len(members) > Len(shifts)
  /\ last.weeks > Len(shifts)
  /\ Cardinality(Created) = last.weeks * Len(shifts)

C14_ExampleAdvancesOnePosition ==
  ( /\ IsGenerated
    /\ members = Team(3)
    /\ shifts = WeekdayShifts(3)
    /\ last.weeks >= 2 )
  => /\ \A r \in CreatedAt(0, 0) : r.team_member_id = 1
     /\ \A r \in CreatedAt(0, 1) : r.team_member_id = 2
     /\ \A r \in CreatedAt(0, 2) : r.team_member_id = 3
     /\ \A r \in CreatedAt(1, 0) : r.team_member_id = 3
     /\ \A r \in CreatedAt(1, 1) : r.team_member_id = 1
     /\ \A r \in CreatedAt(1, 2) : r.team_member_id = 2

(* C15: the rotation is built from the active members in rotation_order    *)
(* order (members without one last, ties by id): the first shift of the    *)
(* first generated week goes to the first member of that order, and no     *)
(* inactive member is assigned.                                            *)
C15_RotationFollowsRotationOrder ==
  IsGenerated =>
    /\ \A r \in CreatedAt(0, 0) :
         r.team_member_id = GetOrderedForRotation(members)[1]
    /\ \A r \in Created : members[r.team_member_id].is_active

(* C16: after a successful generate_schedule(start_date, weeks,            *)
(* force=True) every stored row starting at or after start_date was        *)
(* inserted by that call.                                                  *)
C16_ForceReplacesEverythingFromStart ==
  (IsGenerated /\ last.force) =>
    \A r \in schedule : r.start_datetime >= last.start => r \in Created

----------------------------------------------------------------------------
(* Scheduled jobs                                                          *)

(* C17: a run of the daily notification job with force = FALSE hands to    *)
(* the batch sender exactly the rows that start on the current local day   *)
(* and are not notified, and returns that batch's counts.                  *)
C17_DailyJobSendsTodaysPending ==
  [][ (last'.op = "daily" /\ ~last'.force /\ now' = now)
        => /\ last'.status = "ok"
           /\ last'.count = Cardinality(PendingRows(schedule, now)) ]_vars

JobFuncs(mg) == { j.func : j \in mg.jobs }

(* C18: a started manager holds exactly four jobs: the daily notification  *)
(* run, the nightly auto-renewal check, the weekly summary and the daily   *)
(* override-completion sweep, each with one instance at a time and a grace *)
(* window for missed firings.                                              *)
C18_StartRegistersFourJobs ==
  manager.is_running
    => /\ Cardinality(manager.jobs) = 4
       /\ JobFuncs(manager) = { "send_daily_notifications", "check_auto_renewal",
                                "send_weekly_escalation_summary",
                                "complete_past_overrides" }
       /\ \A j \in manager.jobs : j.max_instances = 1 /\ j.misfire_grace_time > 0

FurthestEnd == MaxOf({ r.end_datetime : r \in schedule })

RenewalDue ==
  /\ settings.auto_renew_enabled
  /\ schedule # {}
  /\ (FurthestEnd - now) \div HoursPerDay
       < DaysPerWeek * settings.auto_renew_threshold_weeks

(* C19: the auto-renewal check calls generate (configured weeks, from the  *)
(* furthest end date, force = FALSE) exactly when renewal is enabled, some *)
(* row exists and the remaining weeks are below the threshold, and that    *)
(* call adds rows; otherwise the check creates and deletes no row.         *)
C19_AutoRenewalGeneratesWhenDue ==
  [][ (last'.op = "auto_renew" /\ now' = now)
        => /\ (last'.count = 1) <=> RenewalDue
           /\ RenewalDue
                => /\ last'.start = FurthestEnd
                   /\ last'.weeks = settings.auto_renew_weeks
                   /\ ~last'.force
                   /\ schedule \subseteq schedule'
                   /\ schedule' # schedule
           /\ ~RenewalDue => schedule' = schedule ]_vars

----------------------------------------------------------------------------
(* Override completion (SpecOverride)                                      *)

Ended(o) == \E r \in schedule : r.id = o.schedule_id /\ r.end_datetime < now

(* C20: complete_past_overrides turns to completed exactly the overrides   *)
(* that are active and whose row ended before now; every cancelled or      *)
(* completed override and every active override whose row has not ended    *)
(* stays as it was, and calling it again at once changes nothing.          *)
C20_CompletePastTouchesOnlyEndedActive ==
  [][ (last'.op = "complete_past" /\ now' = now)
        => /\ \A o \in overrides :
                IF o.status = "active" /\ Ended(o)
                  THEN /\ [o EXCEPT !.status = "completed"] \in overrides'
                       /\ o \notin overrides'
                  ELSE o \in overrides'
           /\ Cardinality(overrides') = Cardinality(overrides)
           /\ CompletePastOverridesResult(schedule, overrides', now) = overrides' ]_vars

C20_Witness ==
  /\ last.op = "complete_past"
  /\ last.count > 0
  /\ \E o \in overrides : o.status = "completed" /\ Ended(o)
  /\ \E o \in overrides : o.status = "active" /\ ~Ended(o)

(* C21: cancel_override on an existing override sets its status to         *)
(* cancelled and stamps cancelled_at without removing the row; no override *)
(* operation ever lowers the number of override rows.                      *)
C21_CancelIsSoftDelete ==
  [][ /\ { o.id : o \in overrides } \subseteq { o.id : o \in overrides' }
      /\ Cardinality(overrides') >= Cardinality(overrides)
      /\ (last'.op = "cancel_override" /\ last'.status = "ok" /\ now' = now)
           => /\ Cardinality(overrides') = Cardinality(overrides)
              /\ \E o \in overrides' : /\ o.id = last'.override_id
                                       /\ o.status = "cancelled"
                                       /\ o.cancelled_at # NoTime ]_vars

C21_Witness ==
  /\ last.op = "cancel_override"
  /\ last.status = "ok"
  /\ Cardinality(overrides) = 2
  /\ \E o \in overrides : o.id = last.override_id /\ o.status = "cancelled"
  /\ \E o \in overrides : o.id # last.override_id /\ o.status = "active"

(* C22: create_override whose covering member is the member the schedule   *)
(* row names fails with a validation error and creates no override row.    *)
C22_SameMemberRejected ==
  [][ ( /\ last'.op = "create_override"
        /\ now' = now
        /\ \E r \in schedule : /\ r.id = last'.schedule_id
                               /\ r.team_member_id = last'.member_id )
        => /\ last'.status \in {"DuplicateActive", "SameMember"}
           /\ overrides' = overrides ]_vars

C22_Witness ==
  /\ last.op = "create_override"
  /\ last.status = "SameMember"
  /\ \E r \in schedule : r.id = last.schedule_id /\ r.team_member_id = last.member_id
  /\ GetOverrideForSchedule(overrides, last.schedule_id) = {}

----------------------------------------------------------------------------
(* Batch dispatch properties (SpecBatch)                                   *)

NumberOf(results, P(_)) == Cardinality({ i \in DOMAIN results : P(results[i]) })

(* C23: send_batch_notifications handles every input once, in input order, *)
(* and reports total = number of inputs = successful + failed + skipped    *)
(* with one result per input; an item that raises is counted as failed for *)
(* that item only and the items after it are still handled.                *)
C23_BatchCountsEveryInputOnce ==
  [][ last'.op = "batch"
        => /\ last'.count = Len(last'.batch)
           /\ Len(last'.results) = Len(last'.batch)
           /\ last'.count = last'.successful + last'.failed + last'.skipped
           /\ \A i \in DOMAIN last'.batch :
                /\ last'.results[i].schedule_id = last'.batch[i].id
                /\ ~last'.batch[i].valid
                     => /\ last'.results[i].status = "error"
                        /\ ~last'.results[i].success
           /\ last'.failed = NumberOf(last'.results, LAMBDA x : ~x.success)
           /\ last'.skipped = NumberOf(last'.results, LAMBDA x : x.status = "skipped")
           /\ last'.successful
                = NumberOf(last'.results, LAMBDA x : x.success /\ x.status # "skipped")
           /\ \A r \in schedule :
                (\A i \in DOMAIN last'.batch :
                   last'.batch[i].id = r.id => ~last'.batch[i].valid)
                  => r \in schedule' ]_vars

C23_Witness ==
  /\ last.op = "batch"
  /\ Len(last.batch) = 2
  /\ ~last.batch[1].valid
  /\ last.results[1].status = "error"
  /\ last.results[2].status = "sent"
  /\ last.failed = 1
  /\ last.successful = 1

----------------------------------------------------------------------------
(* Backoff (SpecSend)                                                      *)

(* The position in a channel's events of its k-th provider call.           *)
SendPosition(ch, k) ==
  CHOOSE i \in Positions(ch, "send") :
    Cardinality({ j \in Positions(ch, "send") : j <= i }) = k

(* C24: on each channel the first attempt is sent without waiting, and the *)
(* wait before the attempt after r failures is base_delay * 2^(r-1):       *)
(* base_delay before the second attempt, twice that before the third.      *)
C24_BackoffDoubles ==
  last.op = "send"
    => \A ch \in ChannelsOf(last) :
         /\ \A k \in 1..Cardinality(Positions(ch, "send")) :
              LET i == SendPosition(ch, k)
              IN  IF k = 1 THEN i = 1
                  ELSE /\ ch[i - 1].e = "sleep"
                       /\ ch[i - 1].delay = base_delay * 2 ^ (k - 2)
         /\ Cardinality(Positions(ch, "sleep"))
              = MaxOf({0, Cardinality(Positions(ch, "send")) - 1})

C24_Witness ==
  /\ last.op = "send"
  /\ Cardinality(Positions(last.primary, "send")) = max_retries
  /\ last.primary[SendPosition(last.primary, 2) - 1].delay = base_delay
  /\ last.primary[SendPosition(last.primary, 3) - 1].delay = 2 * base_delay

----------------------------------------------------------------------------
(* Manual notification properties (SpecManual)                             *)

(* C25: send_manual_notification reads and changes no schedule row (no     *)
(* notified flag changes, the provider is called whatever the retry counts *)
(* are), and every notification row it writes has no schedule reference.   *)
C25_ManualBypassesAssignments ==
  [][ last'.op = "manual"
        => /\ schedule' = schedule
           /\ Positions(last'.primary, "send") # {}
           /\ Len(logs') >= Len(logs)
           /\ SubSeq(logs', 1, Len(logs)) = logs
           /\ \A i \in (Len(logs) + 1)..Len(logs') : logs'[i].schedule_id = NoSchedule
           /\ \A r \in schedule :
                GetRetryCountForSchedule(logs', r.id)
                  = GetRetryCountForSchedule(logs, r.id) ]_vars

C25_Witness ==
  /\ last.op = "manual"
  /\ last.status = "sent"
  /\ last.count = 1
  /\ logs[Len(logs)].schedule_id = NoSchedule
  /\ \E r \in schedule : /\ r.team_member_id = last.member_id
                         /\ ~r.notified
                         /\ GetRetryCountForSchedule(logs, r.id) >= max_retries

----------------------------------------------------------------------------
(* Generated rows (Spec): read in the state a successful generate_schedule *)
(* or regenerate_from_date call leaves.                                    *)

HasGenerated == last.op \in {"generate", "regenerate"} /\ last.status = "ok"

ShiftOf(r) == shifts[CHOOSE k \in DOMAIN shifts : shifts[k].id = r.shift_id]

(* C26: every generated row ends at its start plus its shift's duration,   *)
(* and a call creates exactly one row per shift and week, also for a       *)
(* multi-day shift: the 48-hour shift of Tuesday starts Tuesday 08:00 and  *)
(* ends Thursday 08:00.                                                    *)
C26_EndIsStartPlusDuration ==
  /\ \A r \in schedule : r.end_datetime = r.start_datetime + ShiftOf(r).duration_hours
  /\ HasGenerated
       => /\ Cardinality(Created) = last.weeks * Len(shifts)
          /\ \A k \in DOMAIN shifts : \A w \in 0..(last.weeks - 1) :
               Cardinality({ r \in Created : r.shift_id = shifts[k].id /\ WeekOf(r) = w }) = 1
          /\ \A r \in Created :
               (ShiftOf(r).duration_hours = 48 /\ ShiftOf(r).day = 1)
                 => /\ r.start_datetime % HoursPerWeek = HoursPerDay + ShiftStartHour
                    /\ r.end_datetime % HoursPerWeek = 3 * HoursPerDay + ShiftStartHour

C26_Witness ==
  /\ HasGenerated
  /\ Cardinality(Created) = 2
  /\ \E r \in Created : /\ ShiftOf(r).duration_hours = 48
                        /\ r.start_datetime = HoursPerDay + ShiftStartHour
                        /\ r.end_datetime = 3 * HoursPerDay + ShiftStartHour
  /\ \E r \in Created : ShiftOf(r).duration_hours = 24

----------------------------------------------------------------------------
(* Load over a cycle (SpecRotation)                                        *)

AssignmentsOf(member, from_week, n_weeks) ==
  { r \in Created : /\ r.team_member_id = member
                    /\ WeekOf(r) \in from_week..(from_week + n_weeks - 1) }

(* C27: with m rotation members and s shifts, in any m consecutive weeks   *)
(* of a generated schedule every member has exactly s rows, whether m is   *)
(* above or below s.                                                       *)
C27_FullCycleLoadIsEqual ==
  IsGenerated
    => LET m == Cardinality(ActiveIds(members))
       IN  \A from_week \in 0..(last.weeks - m) :
             \A member \in ActiveIds(members) :
               Cardinality(AssignmentsOf(member, from_week, m)) = Len(shifts)

C27_Witness ==
  /\ IsGenerated
  /\ Cardinality(ActiveIds(members)) = 2
  /\ Len(shifts) = 3
  /\ last.weeks = 3
  /\ \A member \in ActiveIds(members) :
       Cardinality(AssignmentsOf(member, 1, 2)) = 3

(* C28: every generated row starts on its shift's day (the first day of a  *)
(* day pair) of its week, at the time of day the shift definition gives.   *)
C28_StartsAtShiftStartTime ==
  \A r \in schedule :
    r.start_datetime
      = GetWeekStart(r.start_datetime) + ShiftOf(r).day * HoursPerDay
          + ShiftOf(r).start_time

----------------------------------------------------------------------------
(* Weekly summary properties (SpecSummary)                                 *)

(* C29: the digest lists exactly seven consecutive days, Monday through    *)
(* Sunday of the queried week, whichever of them have a row starting.      *)
C29_DigestRunsMondayToSunday ==
  last.op = "weekly_summary"
    => /\ Len(last.digest) = DaysPerWeek
       /\ \A k \in 1..Len(last.digest) :
            last.digest[k].date = DateOf(last.start) + k - 1


(* C30: two generate(force=false) requests are not mutually excluded. A    *)
(* request whose existence check passed adds every row of its rotation     *)
(* when it reaches bulk_create, whatever has been stored since the check.  *)
C30_CheckedCallInserts ==
  [][ \A c \in Callers :
        (requests[c].pc = "checked" /\ requests'[c].pc = "idle")
          => /\ last'.status = "ok"
             /\ Cardinality(schedule') =
                  Cardinality(schedule)
                    + Len(PendingEntries(members, shifts,
                                         requests[c].start, requests[c].weeks)) ]_vars

(* Both requests passed the check for overlapping ranges and both          *)
(* inserted: two rows have the same shift and the same start.              *)
C30_Witness ==
  /\ \A c \in Callers : requests[c].pc = "idle" /\ requests[c].inserted > 0
  /\ \E c1, c2 \in Callers :
       /\ c1 # c2
       /\ requests[c1].start <= requests[c2].start
       /\ requests[c2].start <= requests[c1].start + requests[c1].weeks * HoursPerWeek
  /\ last.op = "generate" /\ last.status = "ok" /\ ~last.force
  /\ \E r1, r2 \in schedule :
       /\ r1.id # r2.id
       /\ r1.shift_id = r2.shift_id
       /\ r1.start_datetime = r2.start_datetime

----------------------------------------------------------------------------
(* Lifecycle properties over separately generated ranges                   *)

SameSlot(r1, r2) ==
  r1.shift_id = r2.shift_id /\ r1.start_datetime = r2.start_datetime

(* C31: no two stored Assignments have the same shift and the same start   *)
(* time, whatever generate and regenerateFrom calls were made before.      *)
C31_NoDuplicateSlots ==
  \A r1, r2 \in schedule : SameSlot(r1, r2) => r1.id = r2.id

C35_RegenerateAddsNothingBeforeDate ==
  (last.op = "regenerate" /\ last.status = "ok")
    => \A r \in Created : r.start_datetime >= last.start

(* C36: cancelled and completed are terminal: no step changes the status   *)
(* of an override that is cancelled or completed.                          *)
C36_CancelledAndCompletedAreTerminal ==
  [][ \A o \in overrides :
        o.status \in {"cancelled", "completed"}
          => \A p \in overrides' : p.id = o.id => p.status = o.status ]_vars

(* C36 as the code has it: cancelled is terminal, and a completed override *)
(* changes status only by being cancelled; apart from that only active     *)
(* overrides change status, to cancelled or to completed.                  *)
C36_CancelledIsTerminal ==
  [][ \A o \in overrides : \A p \in overrides' :
        (p.id = o.id /\ p.status # o.status)
          => \/ o.status = "active" /\ p.status \in {"cancelled", "completed"}
             \/ /\ o.status = "completed" /\ p.status = "cancelled"
                /\ last'.op = "cancel_override" /\ last'.override_id = o.id ]_vars

(* The sweep has just run over a cancelled override of an ended Assignment *)
(* (still cancelled) and a completed one.                                  *)
C36_Witness ==
  /\ last.op = "complete_past"
  /\ \E o \in overrides : o.status = "cancelled" /\ Ended(o)
  /\ \E o \in overrides : o.status = "completed"

----------------------------------------------------------------------------
(* Retry budget over several calls (SpecSend)                              *)

(* The records of one Assignment on one phone. While fewer than            *)
(* max_retries records of the Assignment existed before the call just made *)
(* none of them is the record of a refusal, so each stands for one         *)
(* provider call.                                                          *)
AttemptsOn(schedule_id, phone) ==
  Cardinality({ i \in DOMAIN logs :
                  logs[i].schedule_id = schedule_id /\ logs[i].recipient_phone = phone })

(* C37: over all calls made for one Assignment, the provider is called at  *)
(* most max_retries times on any one channel. Read after a call that went  *)
(* on to the provider.                                                     *)
C37_AttemptsWithinBudgetOverCalls ==
  (last.op = "send" /\ last.recipient # 0)
    => \A t \in {"primary", "secondary"} :
         AttemptsOn(last.schedule_id, Phone(last.recipient, t)) <= max_retries

(* C38: with at least two active members, no member has the same shift in  *)
(* two consecutive calendar weeks, whether the two weeks were written by   *)
(* one call or by two.                                                     *)
C38_NoSameShiftInConsecutiveWeeks ==
  Cardinality(ActiveIds(members)) >= 2
    => \A r1, r2 \in schedule :
         ( /\ r1.shift_id = r2.shift_id
           /\ r2.start_datetime = r1.start_datetime + HoursPerWeek )
           => r1.team_member_id # r2.team_member_id

----------------------------------------------------------------------------
(* Classification properties (SpecClassify)                                *)

(* C39: a provider error with HTTP status 429 or 500 to 503 is retryable:  *)
(* unless it came on the last attempt allowed, the channel's loop makes    *)
(* another provider call after it.                                         *)
C39_ServerErrorsAreRetried ==
  last.op = "send"
    => \A i \in Positions(last.primary, "send") :
         ( /\ last.primary[i].outcome.kind = "twilio"
           /\ last.primary[i].outcome.status \in {429} \cup (500..503)
           /\ Cardinality({ j \in Positions(last.primary, "send") : j <= i }) < max_retries )
           => \E j \in Positions(last.primary, "send") : j > i

----------------------------------------------------------------------------
(* Coverage of the team (SpecLargeTeam)                                    *)

(* C40: when a generated horizon has at least as many slots (weeks times   *)
(* shifts) as there are active members, every active member has at least   *)
(* one of its rows.                                                        *)
C40_EveryMemberGetsASlot ==
  (IsGenerated /\ last.weeks * Len(shifts) >= Cardinality(ActiveIds(members)))
    => \A member \in ActiveIds(members) :
         \E r \in Created : r.team_member_id = member

====
